---- MODULE Spec2Model ----
(***************************************************************************)
(* Balance tracker (src/main.go): one run of main over the configured      *)
(* networks and wallets, with the arbitrary-precision arithmetic of        *)
(* math/big that toDecimalUnit and exceedsBalanceThreshold rest on.        *)
(***************************************************************************)
EXTENDS Integers, Sequences, FiniteSets, TLC

Max(a, b) == IF a >= b THEN a ELSE b

(***************************************************************************)
(* big.Int magnitudes.  A natural number is the sequence of its bits,      *)
(* least significant first, with no zero bit at the top; zero is <<>>.     *)
(* TLC's integers are 32 bits wide, balances are not.                      *)
(***************************************************************************)
natZero == <<>>

natBitLen(x) == Len(x)

Zeros(n) == [i \in 1..n |-> 0]

\* The loops over the bits of a number are written by halving the range, so
\* that the depth of evaluation grows with the logarithm of the bit length.
RECURSIVE HighOne(_, _, _)
\* the highest i in lo..hi with x[i] = 1, or 0
HighOne(x, lo, hi) ==
    IF lo > hi THEN 0
    ELSE IF lo = hi THEN (IF x[lo] = 1 THEN lo ELSE 0)
    ELSE LET mid == (lo + hi) \div 2
             h   == HighOne(x, mid + 1, hi)
         IN  IF h # 0 THEN h ELSE HighOne(x, lo, mid)

RECURSIVE LowOne(_, _, _)
\* the lowest i in lo..hi with x[i] = 1, or 0
LowOne(x, lo, hi) ==
    IF lo > hi THEN 0
    ELSE IF lo = hi THEN (IF x[lo] = 1 THEN lo ELSE 0)
    ELSE LET mid == (lo + hi) \div 2
             l   == LowOne(x, lo, mid)
         IN  IF l # 0 THEN l ELSE LowOne(x, mid + 1, hi)

RECURSIVE HighDiff(_, _, _, _)
\* the highest i in lo..hi with x[i] # y[i], or 0
HighDiff(x, y, lo, hi) ==
    IF lo > hi THEN 0
    ELSE IF lo = hi THEN (IF x[lo] # y[lo] THEN lo ELSE 0)
    ELSE LET mid == (lo + hi) \div 2
             h   == HighDiff(x, y, mid + 1, hi)
         IN  IF h # 0 THEN h ELSE HighDiff(x, y, lo, mid)

\* x without zero bits at the top
natNorm(x) == SubSeq(x, 1, HighOne(x, 1, Len(x)))

\* x * 2^s
natShl(x, s) == IF x = <<>> THEN x ELSE Zeros(s) \o x

RECURSIVE SmallBits(_)
\* the bits of a small number
SmallBits(n) == IF n = 0 THEN <<>> ELSE <<n % 2>> \o SmallBits(n \div 2)

RECURSIVE natMulAddRange(_, _, _, _, _)
\* bits lo..hi of x * k + c and the carry out of them
natMulAddRange(x, k, c, lo, hi) ==
    IF lo > hi THEN [bits |-> <<>>, c |-> c]
    ELSE IF lo = hi
    THEN LET s == x[lo] * k + c
         IN  [bits |-> <<s % 2>>, c |-> s \div 2]
    ELSE LET mid == (lo + hi) \div 2
             l   == natMulAddRange(x, k, c, lo, mid)
             h   == natMulAddRange(x, k, l.c, mid + 1, hi)
         IN  [bits |-> l.bits \o h.bits, c |-> h.c]

\* x * k + c for a small multiplier k >= 1 and a small addend c
natMulAddWW(x, k, c) ==
    LET r == natMulAddRange(x, k, c, 1, Len(x))
    IN  r.bits \o SmallBits(r.c)

\* -1, 0, +1 as x < y, x = y, x > y
natCmp(x, y) ==
    IF Len(x) < Len(y) THEN -1
    ELSE IF Len(x) > Len(y) THEN 1
    ELSE LET d == HighDiff(x, y, 1, Len(x))
         IN  IF d = 0 THEN 0 ELSE IF x[d] < y[d] THEN -1 ELSE 1

RECURSIVE natSubRange(_, _, _, _, _)
\* bits lo..hi of x - y and the borrow out of them
natSubRange(x, y, b, lo, hi) ==
    IF lo > hi THEN [bits |-> <<>>, b |-> b]
    ELSE IF lo = hi
    THEN LET d == x[lo] - (IF lo <= Len(y) THEN y[lo] ELSE 0) - b
         IN  [bits |-> <<d % 2>>, b |-> IF d < 0 THEN 1 ELSE 0]
    ELSE LET mid == (lo + hi) \div 2
             l   == natSubRange(x, y, b, lo, mid)
             h   == natSubRange(x, y, l.b, mid + 1, hi)
         IN  [bits |-> l.bits \o h.bits, b |-> h.b]

\* x - y, for x >= y
natSub(x, y) == natNorm(natSubRange(x, y, 0, 1, Len(x)).bits)

RECURSIVE natDivRange(_, _, _, _, _)
\* long division of x by y over the bits hi down to lo of x, entered with
\* the remainder rem of the bits above hi: the quotient bits, most
\* significant first, and the remainder.  A step takes t = 2 * rem + bit
\* and subtracts y from it; a borrow out of the top says that t < y.
natDivRange(x, y, rem, lo, hi) ==
    IF lo > hi THEN [q |-> <<>>, r |-> rem]
    ELSE IF lo = hi
    THEN LET t == IF rem = <<>> /\ x[lo] = 0 THEN <<>> ELSE <<x[lo]>> \o rem
             d == natSubRange(t, y, 0, 1, Len(t))
         IN  IF Len(t) < Len(y) \/ d.b = 1
             THEN [q |-> <<0>>, r |-> t]
             ELSE [q |-> <<1>>, r |-> natNorm(d.bits)]
    ELSE LET mid == (lo + hi) \div 2
             h   == natDivRange(x, y, rem, mid + 1, hi)
             l   == natDivRange(x, y, h.r, lo, mid)
         IN  [q |-> h.q \o l.q, r |-> l.r]

Reverse(s) == [i \in 1..Len(s) |-> s[Len(s) + 1 - i]]

\* quotient and remainder of x / y, y > 0 (binary long division)
natDiv(x, y) ==
    LET d == natDivRange(x, y, <<>>, 1, Len(x))
    IN  [q |-> natNorm(Reverse(d.q)), r |-> d.r]

RECURSIVE natExp(_, _)
\* base^n for a small base: big.Int.Exp(base, n, nil)
natExp(base, n) == IF n = 0 THEN <<1>> ELSE natMulAddWW(natExp(base, n - 1), base, 0)

\* the number of zero bits below the lowest one bit of x # 0
natTrailingZeros(x) == LowOne(x, 1, Len(x)) - 1

(***************************************************************************)
(* Text.  Chars(s) is the sequence of the one-character strings of s.      *)
(***************************************************************************)
Chars(s) == [i \in 1..Len(s) |-> SubSeq(s, i, i)]

DigitChars == Chars("0123456789abcdef")

IsDigit(c, base) == \E i \in 1..base : DigitChars[i] = c

DigitVal(c) == (CHOOSE i \in 1..Len(DigitChars) : DigitChars[i] = c) - 1

RECURSIVE natScan(_, _, _)
\* the value of the first n digits of cs in the given base
natScan(cs, base, n) ==
    IF n = 0 THEN natZero
    ELSE natMulAddWW(natScan(cs, base, n - 1), base, DigitVal(cs[n]))

\* big.Int.SetString(s, base) for an unsigned digit string: [ok, val]
IntSetString(s, base) ==
    LET cs == Chars(s)
    IN  IF Len(cs) > 0 /\ \A i \in 1..Len(cs) : IsDigit(cs[i], base)
        THEN [ok |-> TRUE, val |-> natScan(cs, base, Len(cs))]
        ELSE [ok |-> FALSE, val |-> natZero]

\* strings.TrimPrefix
TrimPrefix(s, prefix) ==
    IF Len(s) >= Len(prefix) /\ SubSeq(s, 1, Len(prefix)) = prefix
    THEN SubSeq(s, Len(prefix) + 1, Len(s))
    ELSE s

LowerChars == Chars("abcdefghijklmnopqrstuvwxyz")

UpperChars == Chars("ABCDEFGHIJKLMNOPQRSTUVWXYZ")

\* strings.ToUpper, as a sequence of characters
ToUpper(s) ==
    [i \in 1..Len(s) |->
        LET c == SubSeq(s, i, i)
        IN  IF \E k \in 1..26 : LowerChars[k] = c
            THEN UpperChars[CHOOSE k \in 1..26 : LowerChars[k] = c]
            ELSE c]

\* the simple case folding of a character
FoldChar(c) ==
    IF \E k \in 1..26 : UpperChars[k] = c
    THEN LowerChars[CHOOSE k \in 1..26 : UpperChars[k] = c]
    ELSE c

\* strings.EqualFold on sequences of characters
EqualFold(a, b) ==
    /\ Len(a) = Len(b)
    /\ \A i \in 1..Len(a) : FoldChar(a[i]) = FoldChar(b[i])

(***************************************************************************)
(* big.Float.  A finite value is mant * 2^(exp - natBitLen(mant)), that    *)
(* is 0.mant * 2^exp as math/big holds it; results carry a mantissa with   *)
(* its low zero bits dropped, so equal values are equal records.           *)
(***************************************************************************)
\* the precision big.Float takes when none was set (SetInt, SetString)
DefaultPrec == 64

FloatZero(prec) == [form |-> "zero", neg |-> FALSE, prec |-> prec, mant |-> <<>>, exp |-> 0]

natStripLow(x) == IF x = <<>> THEN x ELSE SubSeq(x, natTrailingZeros(x) + 1, Len(x))

\* (q + e) * 2^(-scale), 0 <= e < 1 and e > 0 iff sbit = 1, rounded to prec
\* bits, to nearest with ties to even: big.Float.round
FloatRound(neg, q, sbit, scale, prec) ==
    IF Len(q) <= prec
    THEN [form |-> "finite", neg |-> neg, prec |-> prec,
          mant |-> natStripLow(q), exp |-> Len(q) - scale]
    ELSE LET drop   == Len(q) - prec
             top    == SubSeq(q, drop + 1, Len(q))
             rbit   == q[drop]
             sticky == sbit = 1 \/ \E i \in 1..(drop - 1) : q[i] = 1
             inc    == rbit = 1 /\ (sticky \/ top[1] = 1)
             m      == IF inc THEN natMulAddWW(top, 1, 1) ELSE top
         IN  [form |-> "finite", neg |-> neg, prec |-> prec,
              mant |-> natStripLow(m), exp |-> Len(m) + drop - scale]

\* new(big.Float).SetInt(x): exact, precision max(bit length, 64)
FloatSetInt(x) ==
    LET prec == Max(natBitLen(x), DefaultPrec)
    IN  IF x = natZero THEN FloatZero(prec)
        ELSE [form |-> "finite", neg |-> FALSE, prec |-> prec,
              mant |-> natStripLow(x), exp |-> natBitLen(x)]

\* z.Quo(x, y) at precision prec, y finite and not zero: the quotient is
\* taken with at least one bit more than prec and the remainder gives the
\* sticky bit for the rounding
FloatQuo(prec, x, y) ==
    IF x.form = "zero" THEN FloatZero(prec)
    ELSE LET lx == Len(x.mant)
             ly == Len(y.mant)
             s  == Max(0, prec + 1 + ly - lx)
             d  == natDiv(natShl(x.mant, s), y.mant)
         IN  FloatRound(x.neg # y.neg, d.q, IF d.r = <<>> THEN 0 ELSE 1,
                        s - (x.exp - lx) + (y.exp - ly), prec)

\* the decimal text s: [ok, neg, digits (without the point), fcount (digits
\* after the point)]; ok is false unless s is [+-]digits[.digits]
DecimalScan(s) ==
    LET cs     == Chars(s)
        signed == Len(cs) > 0 /\ cs[1] \in {"+", "-"}
        body   == IF signed THEN SubSeq(cs, 2, Len(cs)) ELSE cs
        points == {i \in 1..Len(body) : body[i] = "."}
        point  == IF points = {} THEN Len(body) + 1 ELSE CHOOSE p \in points : TRUE
    IN  [ok     |-> /\ Cardinality(points) <= 1
                    /\ Len(body) > Cardinality(points)
                    /\ \A i \in 1..Len(body) : body[i] = "." \/ IsDigit(body[i], 10),
         neg    |-> signed /\ cs[1] = "-",
         digits |-> [i \in 1..(Len(body) - Cardinality(points)) |->
                        body[IF i >= point THEN i + 1 ELSE i]],
         fcount |-> IF points = {} THEN 0 ELSE Len(body) - point]

\* new(big.Float).SetString(s): the mantissa digits m and the fraction digit
\* count f give m * 2^(-f) / 5^f, rounded once to DefaultPrec bits: [ok, val]
FloatSetString(s) ==
    LET sc == DecimalScan(s)
    IN  IF ~sc.ok THEN [ok |-> FALSE, val |-> FloatZero(DefaultPrec)]
        ELSE LET m == natScan(sc.digits, 10, Len(sc.digits))
                 z == [form |-> "finite", neg |-> sc.neg, prec |-> DefaultPrec,
                       mant |-> m, exp |-> natBitLen(m) - sc.fcount]
             IN  [ok  |-> TRUE,
                  val |-> IF m = natZero THEN FloatZero(DefaultPrec)
                          ELSE IF sc.fcount = 0
                          THEN FloatRound(sc.neg, m, 0, 0, DefaultPrec)
                          ELSE FloatQuo(DefaultPrec, z,
                                        FloatSetInt(natExp(5, sc.fcount)))]

\* x.ord(): -1, 0, +1 for negative, zero, positive
FloatOrd(x) == IF x.form = "zero" THEN 0 ELSE IF x.neg THEN -1 ELSE 1

\* x.ucmp(y): |x| against |y|, exponents first, then the mantissas from
\* their most significant bits, the shorter one continued with zero bits
FloatUcmp(x, y) ==
    IF x.exp < y.exp THEN -1
    ELSE IF x.exp > y.exp THEN 1
    ELSE LET n == Max(Len(x.mant), Len(y.mant))
         IN  natCmp(Zeros(n - Len(x.mant)) \o x.mant,
                    Zeros(n - Len(y.mant)) \o y.mant)

\* x.Cmp(y)
FloatCmp(x, y) ==
    LET mx == FloatOrd(x)
        my == FloatOrd(y)
    IN  IF mx < my THEN -1
        ELSE IF mx > my THEN 1
        ELSE IF mx = -1 THEN FloatUcmp(y, x)
        ELSE IF mx = 1 THEN FloatUcmp(x, y)
        ELSE 0

(***************************************************************************)
(* The Decimal Converter and the Threshold Evaluator.                      *)
(***************************************************************************)
toDecimalUnit(wei, decimals) ==
    LET decimalFactor == natExp(10, decimals)
        x == FloatSetInt(wei)
        y == FloatSetInt(decimalFactor)
    IN  FloatQuo(Max(x.prec, y.prec), x, y)

\* a comparison that is not strict
exceedsBalanceThresholdOrEqual(balance, threshold) == FloatCmp(balance, threshold) <= 0

exceedsBalanceThreshold(balance, threshold) == FloatCmp(balance, threshold) = -1

(***************************************************************************)
(* The Chain Balance Fetchers, as functions of what the endpoint answered. *)
(* A result is [ok, balance, err].                                         *)
(***************************************************************************)
Fetched(balance) == [ok |-> TRUE, balance |-> balance, err |-> "none"]

FetchError(err) == [ok |-> FALSE, balance |-> natZero, err |-> err]

RECURSIVE FirstMatch(_, _, _)
\* the index of the first entry of balances from i on whose denom matches, or 0
FirstMatch(balances, denom, i) ==
    IF i > Len(balances) THEN 0
    ELSE IF EqualFold(ToUpper(balances[i].denom), ToUpper(denom)) THEN i
    ELSE FirstMatch(balances, denom, i + 1)

\* a fetcher that does not tell letter case apart from a missing denom:
\* exact match of the denom, and a zero balance when nothing matches
getCosmosBalanceOrZero(resp, denom) ==
    IF resp.kind = "neterr" THEN FetchError("http request")
    ELSE IF resp.kind = "readerr" THEN FetchError("read body")
    ELSE IF resp.json = "malformed" THEN FetchError("unmarshal")
    ELSE LET ms == {j \in 1..Len(resp.balances) : resp.balances[j].denom = denom}
         IN  IF ms # {}
             THEN Fetched(IntSetString(resp.balances[CHOOSE j \in ms : \A o \in ms : j <= o].amount, 10).val)
             ELSE Fetched(natZero)

\* resp is what http.Get and io.ReadAll gave: [kind |-> "neterr"],
\* [kind |-> "readerr", status] or [kind |-> "http", status, json, balances]
getCosmosBalance(resp, denom) ==
    IF resp.kind = "neterr" THEN FetchError("http request")
    ELSE IF resp.kind = "readerr" THEN FetchError("read body")
    ELSE IF resp.json = "malformed" THEN FetchError("unmarshal")
    ELSE LET c == FirstMatch(resp.balances, denom, 1)
         IN  IF c # 0
             THEN Fetched(IntSetString(resp.balances[c].amount, 10).val)
             ELSE FetchError("no balance found")

\* resp is what client.GetBalance gave: [err |-> TRUE] or [err |-> FALSE, hex]
getICXBalance(resp) ==
    IF resp.err THEN FetchError("rpc")
    ELSE LET bal == IntSetString(TrimPrefix(resp.hex, "0x"), 16)
         IN  IF bal.ok THEN Fetched(bal.val) ELSE FetchError("convert")

\* resp is what client.CallContext gave: [err |-> TRUE] or [err |-> FALSE, hex]
getETHBalance(resp) ==
    IF resp.err THEN FetchError("rpc")
    ELSE LET balance == IntSetString(TrimPrefix(resp.hex, "0x"), 16)
         IN  IF balance.ok THEN Fetched(balance.val) ELSE FetchError("convert")

(***************************************************************************)
(* Bounds and the inputs of a run.                                         *)
(***************************************************************************)
\* networks in wallets.json, at most
MaxNetworks == 2

\* wallets of a network
MaxWallets == 3

\* the wallets of a network, those in alert with the alert flag set
Wallets(alert) == [i \in 1..MaxWallets |-> [Address |-> i, Alert |-> i \in alert]]

EvmAlert == {i \in 1..MaxWallets : i % 2 = 1}

IconAlert == {2, 3}

CosmosAlert == {1, 2}

AllAlert == 1..MaxWallets

NetworkConfigs ==
    { [Type |-> "evm", Coin |-> "ETH", Name |-> "ethereum", Decimals |-> 18,
       Threshold |-> "1.0", Wallets |-> Wallets(EvmAlert)],
      [Type |-> "icon", Coin |-> "ICX", Name |-> "icon", Decimals |-> 18,
       Threshold |-> "0.50000000000000000001", Wallets |-> Wallets(IconAlert)],
      [Type |-> "cosmos", Coin |-> "UATOM", Name |-> "cosmoshub", Decimals |-> 6,
       Threshold |-> "0.1", Wallets |-> Wallets(CosmosAlert)],
      [Type |-> "cosmos", Coin |-> "uosmo", Name |-> "osmosis", Decimals |-> 6,
       Threshold |-> "low", Wallets |-> Wallets(AllAlert)] }

RECURSIVE SeqsUpTo(_, _)
\* the sequences over S of length at most n
SeqsUpTo(S, n) ==
    IF n = 0 THEN {<<>>}
    ELSE LET shorter == SeqsUpTo(S, n - 1)
         IN  shorter \cup {Append(q, x) : q \in shorter, x \in S}

\* what ./wallets.json may be: unreadable, not JSON of the expected shape,
\* or a list of networks
Files ==
    {[state |-> "unreadable", Chains |-> <<>>], [state |-> "malformed", Chains |-> <<>>]}
    \cup {[state |-> "ok", Chains |-> c] : c \in SeqsUpTo(NetworkConfigs, MaxNetworks)}

\* answers of an EVM or ICON endpoint: 2.0, 0.5 and 0.1 coins, and text
\* that is no number
RpcResponses ==
    { [err |-> TRUE, hex |-> ""],
      [err |-> FALSE, hex |-> "0x1bc16d674ec80000"],
      [err |-> FALSE, hex |-> "0x6f05b59d3b20000"],
      [err |-> FALSE, hex |-> "0x16345785d8a0000"],
      [err |-> FALSE, hex |-> "0xzz"] }

CosmosResponses ==
    { [kind |-> "neterr", status |-> 0, json |-> "none", balances |-> <<>>],
      [kind |-> "readerr", status |-> 200, json |-> "none", balances |-> <<>>],
      [kind |-> "http", status |-> 200, json |-> "malformed", balances |-> <<>>],
      [kind |-> "http", status |-> 200, json |-> "object",
       balances |-> <<[denom |-> "uosmo", amount |-> "7"]>>],
      [kind |-> "http", status |-> 200, json |-> "object",
       balances |-> <<[denom |-> "uosmo", amount |-> "7"],
                      [denom |-> "uatom", amount |-> "2500000"],
                      [denom |-> "UATOM", amount |-> "1"]>>],
      [kind |-> "http", status |-> 200, json |-> "object",
       balances |-> <<[denom |-> "uatom", amount |-> "99999"]>>],
      [kind |-> "http", status |-> 500, json |-> "object",
       balances |-> <<[denom |-> "uatom", amount |-> "2500000"]>>],
      [kind |-> "http", status |-> 404, json |-> "object", balances |-> <<>>] }

Responses(type) == IF type = "cosmos" THEN CosmosResponses ELSE RpcResponses

\* what the webhook POST comes to: a transport error, or a status
PostOutcomes == {"error", "200", "500"}

(***************************************************************************)
(* The arithmetic is the same for every state, so its results over the     *)
(* inputs above are tabulated once and looked up by the actions.           *)
(***************************************************************************)
FetchResult(type, resp, denom) ==
    IF type = "evm" THEN getETHBalance(resp)
    ELSE IF type = "icon" THEN getICXBalance(resp)
    ELSE getCosmosBalance(resp, denom)

FetchResults ==
    [a \in {<<c.Type, resp, c.Coin>> : c \in NetworkConfigs,
                                        resp \in RpcResponses \cup CosmosResponses}
        |-> IF a[2] \in Responses(a[1])
            THEN FetchResult(a[1], a[2], a[3])
            ELSE FetchError("none")]

DecimalUnits ==
    [a \in {<<FetchResults[f].balance, c.Decimals>> :
                f \in DOMAIN FetchResults, c \in NetworkConfigs}
        |-> toDecimalUnit(a[1], a[2])]

Thresholds == [t \in {c.Threshold : c \in NetworkConfigs} |-> FloatSetString(t)]

(***************************************************************************)
(* One run of main.                                                        *)
(***************************************************************************)
VARIABLES
    file,       \* ./wallets.json
    chainCfg,   \* the parsed configuration
    pc,         \* where main is
    ni,         \* index of the network the outer loop is at
    wi,         \* index of the wallet the inner loop is at
    threshold,  \* the network's parsed threshold
    call,       \* the external call main is blocked in
    fetches,    \* balance fetches of the network in progress, in order
    out,        \* what was printed for the network in progress, in order
    alerts,     \* sendAlert invocations for the network in progress
    posts,      \* webhook POSTs of the network in progress and their outcomes
    netStatus,  \* how each network left behind ended
    exit,       \* the exit status of the process
    pureIn,     \* arguments of a call of the pure functions alone
    pureOut     \* and its results

vars == <<file, chainCfg, pc, ni, wi, threshold, call, fetches, out, alerts,
          posts, netStatus, exit, pureIn, pureOut>>

NoCall == [kind |-> "none", deadline |-> FALSE]

NoPure == [stage |-> "none"]

Init ==
    /\ file \in Files
    /\ chainCfg = <<>>
    /\ pc = "start"
    /\ ni = 0
    /\ wi = 0
    /\ threshold = FloatZero(DefaultPrec)
    /\ call = NoCall
    /\ fetches = <<>>
    /\ out = <<>>
    /\ alerts = <<>>
    /\ posts = <<>>
    /\ netStatus = <<>>
    /\ exit = "running"
    /\ pureIn = NoPure
    /\ pureOut = NoPure

net == chainCfg[ni]

wallet == net.Wallets[wi]

\* os.ReadFile and json.Unmarshal: log.Fatal on either error
LoadConfig ==
    /\ pc = "start"
    /\ IF file.state \in {"unreadable", "malformed"}
       THEN /\ pc' = "fatal"
            /\ exit' = "1"
            /\ UNCHANGED <<chainCfg, ni>>
       ELSE /\ chainCfg' = file.Chains
            /\ pc' = "network"
            /\ ni' = 1
            /\ exit' = exit
    /\ UNCHANGED <<file, wi, threshold, call, fetches, out, alerts, posts,
                   netStatus, pureIn, pureOut>>

\* the head of the loop over chainCfg.Chains: the header lines, the
\* threshold, and the client of the network; dialed says whether
\* rpc.DialContext succeeded (iconclient.NewClientV3 returns no error and
\* a Cosmos network has no client)
BeginNetwork(dialed) ==
    /\ pc = "network"
    /\ ~dialed => ni <= Len(chainCfg) /\ net.Type = "evm"
    /\ IF ni > Len(chainCfg)
       THEN /\ pc' = "done"
            /\ exit' = "0"
            /\ UNCHANGED <<ni, wi, threshold, fetches, out, alerts, posts, netStatus>>
       ELSE LET t == Thresholds[net.Threshold]
            IN  /\ exit' = exit
                /\ fetches' = <<>>
                /\ alerts' = <<>>
                /\ posts' = <<>>
                /\ IF ~t.ok
                   THEN /\ out' = <<[k |-> "header"], [k |-> "threshold error"]>>
                        /\ netStatus' = Append(netStatus, "bad threshold")
                        /\ ni' = ni + 1
                        /\ UNCHANGED <<pc, wi, threshold>>
                   ELSE IF net.Type = "evm" /\ ~dialed
                   THEN /\ out' = <<[k |-> "header"]>>
                        /\ netStatus' = Append(netStatus, "dial failed")
                        /\ ni' = ni + 1
                        /\ threshold' = t.val
                        /\ UNCHANGED <<pc, wi>>
                   ELSE /\ out' = <<[k |-> "header"]>>
                        /\ threshold' = t.val
                        /\ pc' = "wallet"
                        /\ wi' = 1
                        /\ UNCHANGED <<ni, netStatus>>
    /\ UNCHANGED <<file, chainCfg, call, pureIn, pureOut>>

\* a loop over the wallets that does not look at the alert flag
NextWalletOfAll ==
    /\ pc = "wallet"
    /\ IF wi > Len(net.Wallets)
       THEN /\ out' = Append(out, [k |-> "trailer"])
            /\ netStatus' = Append(netStatus, "processed")
            /\ ni' = ni + 1
            /\ pc' = "network"
            /\ UNCHANGED <<wi, call>>
       ELSE /\ pc' = "fetch"
            /\ call' = [kind |-> net.Type, deadline |-> net.Type = "evm"]
            /\ UNCHANGED <<ni, wi, out, netStatus>>
    /\ UNCHANGED <<file, chainCfg, threshold, fetches, alerts, posts, exit,
                   pureIn, pureOut>>

\* the head of the loop over networkConfig.Wallets: the end of the list,
\* a wallet without alert, or the balance call going out
NextWallet ==
    /\ pc = "wallet"
    /\ IF wi > Len(net.Wallets)
       THEN /\ out' = Append(out, [k |-> "trailer"])
            /\ netStatus' = Append(netStatus, "processed")
            /\ ni' = ni + 1
            /\ pc' = "network"
            /\ UNCHANGED <<wi, call>>
       ELSE IF ~wallet.Alert
       THEN /\ wi' = wi + 1
            /\ UNCHANGED <<pc, ni, call, out, netStatus>>
       ELSE /\ pc' = "fetch"
            /\ call' = [kind |-> net.Type, deadline |-> net.Type = "evm"]
            /\ UNCHANGED <<ni, wi, out, netStatus>>
    /\ UNCHANGED <<file, chainCfg, threshold, fetches, alerts, posts, exit,
                   pureIn, pureOut>>

\* a wallet loop that ends the process on a failed fetch
EvaluateOrFatal(resp, r) ==
    /\ fetches' = Append(fetches, [w |-> wi, resp |-> resp, r |-> r])
    /\ IF ~r.ok
       THEN /\ out' = Append(out, [k |-> "error", w |-> wi])
            /\ pc' = "fatal"
            /\ exit' = "1"
            /\ call' = NoCall
            /\ UNCHANGED <<wi, alerts>>
       ELSE LET etherBalance == DecimalUnits[<<r.balance, net.Decimals>>]
            IN  /\ out' = Append(out, [k |-> "row", w |-> wi, dec |-> etherBalance,
                                       balance |-> r.balance, thr |-> threshold])
                /\ exit' = exit
                /\ IF exceedsBalanceThreshold(etherBalance, threshold)
                   THEN /\ alerts' = Append(alerts, [w |-> wi, dec |-> etherBalance,
                                                     thr |-> threshold])
                        /\ pc' = "post"
                        /\ call' = [kind |-> "discord", deadline |-> FALSE]
                        /\ wi' = wi
                   ELSE /\ wi' = wi + 1
                        /\ pc' = "wallet"
                        /\ call' = NoCall
                        /\ UNCHANGED alerts
    /\ UNCHANGED <<file, chainCfg, ni, threshold, posts, netStatus, pureIn, pureOut>>

\* the body of the wallet loop once the fetcher has returned r for resp
Evaluate(resp, r) ==
    /\ fetches' = Append(fetches, [w |-> wi, resp |-> resp, r |-> r])
    /\ IF ~r.ok
       THEN /\ out' = Append(out, [k |-> "error", w |-> wi])
            /\ wi' = wi + 1
            /\ pc' = "wallet"
            /\ call' = NoCall
            /\ UNCHANGED alerts
       ELSE LET etherBalance == DecimalUnits[<<r.balance, net.Decimals>>]
            IN  /\ out' = Append(out, [k |-> "row", w |-> wi, dec |-> etherBalance,
                                       balance |-> r.balance, thr |-> threshold])
                /\ IF exceedsBalanceThreshold(etherBalance, threshold)
                   THEN /\ alerts' = Append(alerts, [w |-> wi, dec |-> etherBalance,
                                                     thr |-> threshold])
                        /\ pc' = "post"
                        /\ call' = [kind |-> "discord", deadline |-> FALSE]
                        /\ wi' = wi
                   ELSE /\ wi' = wi + 1
                        /\ pc' = "wallet"
                        /\ call' = NoCall
                        /\ UNCHANGED alerts
    /\ UNCHANGED <<file, chainCfg, ni, threshold, posts, netStatus, exit,
                   pureIn, pureOut>>

\* the endpoint answers the balance call
FetchReturns(resp) ==
    /\ pc = "fetch"
    /\ resp \in Responses(net.Type)
    /\ Evaluate(resp, FetchResults[<<net.Type, resp, net.Coin>>])

\* the context of getETHBalance expires before the endpoint answers
FetchTimeout ==
    /\ pc = "fetch"
    /\ call.deadline
    /\ Evaluate([err |-> TRUE, hex |-> ""], FetchError("deadline exceeded"))

\* http.Post of sendDiscordAlert returns; sendAlert drops the error
PostReturns(outcome) ==
    /\ pc = "post"
    /\ posts' = Append(posts, [w |-> wi, outcome |-> outcome])
    /\ wi' = wi + 1
    /\ pc' = "wallet"
    /\ call' = NoCall
    /\ UNCHANGED <<file, chainCfg, ni, threshold, fetches, out, alerts,
                   netStatus, exit, pureIn, pureOut>>

Next ==
    \/ LoadConfig
    \/ \E dialed \in BOOLEAN : BeginNetwork(dialed)
    \/ NextWallet
    \/ \E resp \in RpcResponses \cup CosmosResponses : FetchReturns(resp)
    \/ FetchTimeout
    \/ \E outcome \in PostOutcomes : PostReturns(outcome)

Spec == Init /\ [][Next]_vars

(***************************************************************************)
(* The Decimal Converter and the Threshold Evaluator called on their own.  *)
(***************************************************************************)
PureBalances ==
    {"0", "1", "5", "7", "500000000000000000", "18446744073709551615",
     "18446744073709551617", "20000000000000000001"}

PureDecimals == {0, 1, 2, 18}

PureThresholds ==
    {"0", "0.1", "5", "-1", "0.07", "18446744073709551615.4",
     "20.000000000000000001"}

PureInit ==
    /\ file = [state |-> "unreadable", Chains |-> <<>>]
    /\ chainCfg = <<>>
    /\ pc = "pure"
    /\ ni = 0
    /\ wi = 0
    /\ threshold = FloatZero(DefaultPrec)
    /\ call = NoCall
    /\ fetches = <<>>
    /\ out = <<>>
    /\ alerts = <<>>
    /\ posts = <<>>
    /\ netStatus = <<>>
    /\ exit = "running"
    /\ pureIn \in [wei : PureBalances, decimals : PureDecimals, threshold : PureThresholds]
    /\ pureOut = [stage |-> "input"]

mainVars == <<file, chainCfg, pc, ni, wi, threshold, call, fetches, out, alerts,
              posts, netStatus, exit>>

\* toDecimalUnit(balance, networkConfig.Decimals)
CallToDecimalUnit ==
    /\ pureOut.stage = "input"
    /\ pureOut' = [stage |-> "converted",
                   wei   |-> IntSetString(pureIn.wei, 10).val,
                   dec   |-> toDecimalUnit(IntSetString(pureIn.wei, 10).val,
                                           pureIn.decimals)]
    /\ UNCHANGED <<mainVars, pureIn>>

\* exceedsBalanceThreshold(etherBalance, threshold)
CallExceedsBalanceThreshold ==
    /\ pureOut.stage = "converted"
    /\ LET thr == FloatSetString(pureIn.threshold).val
       IN  pureOut' = [stage   |-> "compared",
                       wei     |-> pureOut.wei,
                       dec     |-> pureOut.dec,
                       thr     |-> thr,
                       exceeds |-> exceedsBalanceThreshold(pureOut.dec, thr)]
    /\ UNCHANGED <<mainVars, pureIn>>

PureNext == CallToDecimalUnit \/ CallExceedsBalanceThreshold

PureSpec == PureInit /\ [][PureNext]_vars

(***************************************************************************)
(* Exact arithmetic, for stating what the results should be.               *)
(***************************************************************************)
RECURSIVE MulPow10(_, _)
\* x * 10^n
MulPow10(x, n) ==
    IF n = 0 THEN x
    ELSE LET y == natMulAddWW(x, 10, 0)
         IN  IF Len(y) = 0 THEN y ELSE MulPow10(y, n - 1)

\* balance / 10^decimals < the decimal number the text thr writes
ExactBelow(balance, decimals, thr) ==
    LET sc == DecimalScan(thr)
        m  == natScan(sc.digits, 10, Len(sc.digits))
    IN  /\ ~sc.neg
        /\ natCmp(MulPow10(balance, sc.fcount), MulPow10(m, decimals)) = -1

ExactBelows ==
    [a \in {<<FetchResults[f].balance, c.Decimals, c.Threshold>> :
                f \in DOMAIN FetchResults,
                c \in {n \in NetworkConfigs : Thresholds[n.Threshold].ok}}
        |-> ExactBelow(a[1], a[2], a[3])]

\* the value of the float f, times 10^decimals, is the integer wei
ExactQuotient(f, wei, decimals) ==
    IF f.form = "zero" THEN wei = natZero
    ELSE LET e == f.exp - Len(f.mant)
             m == MulPow10(f.mant, decimals)
         IN  /\ ~f.neg
             /\ IF e >= 0 THEN natShl(m, e) = wei ELSE m = natShl(wei, -e)

\* -1, 0, +1 as the value of the float x is below, equal to, above that of y
ExactCmp(x, y) ==
    LET sign(f) == IF f.form = "zero" THEN 0 ELSE IF f.neg THEN -1 ELSE 1
        e(f)    == f.exp - Len(f.mant)
        low     == IF e(x) < e(y) THEN e(x) ELSE e(y)
        mag(f)  == natShl(f.mant, e(f) - low)
    IN  IF sign(x) # sign(y) THEN (IF sign(x) < sign(y) THEN -1 ELSE 1)
        ELSE IF sign(x) = 0 THEN 0
        ELSE sign(x) * natCmp(mag(x), mag(y))

RECURSIVE DecimalDigits(_)
\* the decimal digits of x > 0, most significant first
DecimalDigits(x) ==
    IF x = natZero THEN ""
    ELSE LET d == natDiv(x, <<0, 1, 0, 1>>)
             v == IF d.r = <<>> THEN 0
                  ELSE d.r[1] + (IF Len(d.r) > 1 THEN 2 * d.r[2] ELSE 0)
                       + (IF Len(d.r) > 2 THEN 4 * d.r[3] ELSE 0)
                       + (IF Len(d.r) > 3 THEN 8 * d.r[4] ELSE 0)
         IN  DecimalDigits(d.q) \o DigitChars[v + 1]

\* the decimal text of x
DecimalText(x) == IF x = natZero THEN "0" ELSE DecimalDigits(x)

DecimalTexts ==
    [b \in {FetchResults[f].balance : f \in DOMAIN FetchResults} |-> DecimalText(b)]

\* a and b are the same text up to the case of their letters
SameIgnoringCase(a, b) ==
    /\ Len(a) = Len(b)
    /\ \A i \in 1..Len(a) :
          \/ SubSeq(a, i, i) = SubSeq(b, i, i)
          \/ \E k \in 1..26 : {SubSeq(a, i, i), SubSeq(b, i, i)} = {LowerChars[k], UpperChars[k]}

(***************************************************************************)
(* What a state shows of the network in progress.                          *)
(***************************************************************************)
InNetwork == pc \in {"wallet", "fetch", "post"}

\* the wallets the loop has left behind
Finished == IF InNetwork THEN 1..(wi - 1) ELSE {}

\* how many entries of q of kind k are about wallet w
Count(q, k, w) ==
    Cardinality({i \in 1..Len(q) : q[i].w = w /\ (k # "" => q[i].k = k)})

RowsOf(w) == Count(SelectSeq(out, LAMBDA e : e.k = "row"), "row", w)

ErrorsOf(w) == Count(SelectSeq(out, LAMBDA e : e.k = "error"), "error", w)

AlertsOf(w) == Count(alerts, "", w)

PostsOf(w) == Count(posts, "", w)

FetchesOf(w) == Count(fetches, "", w)

FetchOf(w) == fetches[CHOOSE i \in 1..Len(fetches) : fetches[i].w = w]

\* the subsequence of 1..n of the wallets with alert set
RECURSIVE AlertEnabled(_, _)
AlertEnabled(ws, n) ==
    IF n = 0 THEN <<>>
    ELSE IF ws[n].Alert THEN Append(AlertEnabled(ws, n - 1), n)
    ELSE AlertEnabled(ws, n - 1)

(***************************************************************************)
(* The claims.                                                             *)
(***************************************************************************)

\* C1: for every wallet the loop has left behind, sendAlert was invoked
\* exactly once if the wallet has alert set, its fetch succeeded and
\* balance / 10^decimals is below the threshold the configuration writes,
\* and was not invoked otherwise.
C1_AlertIffBelowThreshold ==
    \A w \in Finished :
        AlertsOf(w) =
            IF /\ net.Wallets[w].Alert
               /\ FetchesOf(w) = 1
               /\ FetchOf(w).r.ok
               /\ ExactBelows[<<FetchOf(w).r.balance, net.Decimals, net.Threshold>>]
            THEN 1 ELSE 0

\* C4: on a parsed list of balances getCosmosBalance returns the amount of
\* the first entry whose denom is the query denom up to letter case, read
\* as a base-10 integer, and the "no balance found" error when there is no
\* such entry.
C4_FirstMatchOrNoBalanceFound ==
    InNetwork /\ net.Type = "cosmos" =>
        \A i \in 1..Len(fetches) :
            LET f == fetches[i]
            IN  f.resp.kind = "http" /\ f.resp.json = "object" =>
                    LET bs == f.resp.balances
                        ms == {j \in 1..Len(bs) : SameIgnoringCase(bs[j].denom, net.Coin)}
                    IN  IF ms = {}
                        THEN ~f.r.ok /\ f.r.err = "no balance found"
                        ELSE LET j == CHOOSE m \in ms : \A o \in ms : m <= o
                             IN  f.r.ok /\ DecimalTexts[f.r.balance] = bs[j].amount

\* a later entry of the list matches up to case and its amount is returned
C4_Witness ==
    /\ InNetwork
    /\ net.Type = "cosmos"
    /\ \E i \in 1..Len(fetches) :
          LET f == fetches[i]
          IN  /\ f.resp.kind = "http"
              /\ f.resp.json = "object"
              /\ Len(f.resp.balances) = 3
              /\ f.resp.balances[2].denom # net.Coin
              /\ f.r.ok
              /\ DecimalTexts[f.r.balance] = "2500000"

\* C5: a network error, a response with a non-2xx status and a body that
\* is not well-formed JSON each make getCosmosBalance return an error and
\* no balance.
C5_FailedExchangeIsError ==
    InNetwork /\ net.Type = "cosmos" =>
        \A i \in 1..Len(fetches) :
            LET f == fetches[i]
            IN  (\/ f.resp.kind # "http"
                 \/ f.resp.status \notin 200..299
                 \/ f.resp.json = "malformed") => ~f.r.ok

\* C6: a failed fetch leaves one logged error and neither row nor alert
\* for its wallet, the wallets after it are still walked, a network whose
\* threshold parses and which needs no dial is walked to its end, and only
\* an unreadable or malformed configuration file ends the process early.
C6_FetchErrorNotFatal ==
    /\ pc = "fatal" <=> file.state \in {"unreadable", "malformed"} /\ pc # "start"
    /\ exit = "1" <=> pc = "fatal"
    /\ pc = "done" => Len(netStatus) = Len(chainCfg) /\ exit = "0"
    /\ \A n \in 1..Len(netStatus) :
          chainCfg[n].Type # "evm" /\ Thresholds[chainCfg[n].Threshold].ok
              => netStatus[n] = "processed"
    /\ InNetwork =>
          \A i \in 1..Len(fetches) :
              ~fetches[i].r.ok =>
                  /\ ErrorsOf(fetches[i].w) = 1
                  /\ RowsOf(fetches[i].w) = 0
                  /\ AlertsOf(fetches[i].w) = 0
                  /\ PostsOf(fetches[i].w) = 0
                  /\ fetches[i].w < wi
                  /\ \A v \in (fetches[i].w + 1)..(wi - 1) :
                        net.Wallets[v].Alert => FetchesOf(v) = 1

\* a wallet is reported after the fetch of an earlier wallet failed, in a
\* network that follows another one
C6_Witness ==
    /\ InNetwork
    /\ ni > 1
    /\ \E i, j \in 1..Len(fetches) :
          /\ i < j
          /\ ~fetches[i].r.ok
          /\ fetches[j].r.ok
          /\ RowsOf(fetches[j].w) = 1

\* C7: a network whose client could not be set up is left with no wallet
\* fetched, reported or alerted on, and with the error logged.
C7_DialFailureLogged ==
    pc \in {"network", "done"} /\ ni > 1 /\ netStatus[ni - 1] = "dial failed" =>
        /\ fetches = <<>>
        /\ alerts = <<>>
        /\ \A i \in 1..Len(out) : out[i].k # "row"
        /\ \E i \in 1..Len(out) : out[i].k \in {"error", "dial error"}

\* C8: the wallets fetched so far are the wallets with alert set, each
\* once and in the order of the configuration; the rows are those of the
\* fetches that succeeded, in the same order; and a balance call goes out
\* only when every earlier wallet is finished.
C8_AlertEnabledInOrder ==
    InNetwork =>
        LET upto == IF pc = "post" THEN wi ELSE wi - 1
            rows == SelectSeq(out, LAMBDA e : e.k = "row")
            good == SelectSeq(fetches, LAMBDA f : f.r.ok)
        IN  /\ [i \in 1..Len(fetches) |-> fetches[i].w] = AlertEnabled(net.Wallets, upto)
            /\ [i \in 1..Len(rows) |-> rows[i].w] = [i \in 1..Len(good) |-> good[i].w]
            /\ (call.kind # "none") <=> (pc \in {"fetch", "post"})
            /\ pc = "fetch" =>
                  /\ Len(posts) = Len(alerts)
                  /\ \A i \in 1..Len(fetches) :
                        /\ fetches[i].w < wi
                        /\ ErrorsOf(fetches[i].w) + RowsOf(fetches[i].w) = 1

\* a network of three wallets, one of them without alert, has been walked
\* to its end with exactly two wallets evaluated
C8_Witness ==
    /\ pc = "wallet"
    /\ wi = Len(net.Wallets) + 1
    /\ Len(net.Wallets) = 3
    /\ Len(fetches) = 2
    /\ Len(SelectSeq(out, LAMBDA e : e.k = "row")) = 2

\* C9: a webhook POST that errors or returns a status other than 200
\* leaves a logged failure.
C9_PostFailureLogged ==
    \A i \in 1..Len(posts) :
        posts[i].outcome # "200" =>
            \E j \in 1..Len(out) : out[j].k = "alert error" /\ out[j].w = posts[i].w

\* C10: every external call in flight has a timeout of its own.
C10_EveryCallHasTimeout == call.kind # "none" => call.deadline

\* C2: exceedsBalanceThreshold is true exactly when the value of the
\* balance is strictly below the value of the threshold; it is false for
\* equal values and for a balance above the threshold.
C2_StrictlyLess ==
    pureOut.stage = "compared" =>
        pureOut.exceeds = (ExactCmp(pureOut.dec, pureOut.thr) = -1)

\* a positive balance equal to the threshold has been compared
C2_Witness ==
    /\ pureOut.stage = "compared"
    /\ pureOut.dec.form = "finite"
    /\ ExactCmp(pureOut.dec, pureOut.thr) = 0
    /\ ~pureOut.exceeds

\* C3: toDecimalUnit(B, D) times 10^D is B exactly, and toDecimalUnit(B, 0)
\* is B, also for B beyond 64 bits.
C3_ExactConversion ==
    pureOut.stage \in {"converted", "compared"} =>
        ExactQuotient(pureOut.dec, pureOut.wei, pureIn.decimals)
====
